---- MODULE Spec2Model ----
(***************************************************************************)
(* A model of app.py, the Streamlit SMS spam classifier page.              *)
(*                                                                         *)
(* Texts are sequences of characters.  Three specifications are given:     *)
(*   SpecClean    clean_text as a pure function over bounded texts;        *)
(*   SpecPredict  predict_msg as a pure function over the raw forms a      *)
(*                classifier can return;                                   *)
(*   Spec         one browser session: script runs triggered by the        *)
(*                buttons, each run starting with load_artifacts().        *)
(***************************************************************************)
EXTENDS Integers, Sequences, FiniteSets, TLC

VARIABLES
    files,       \* names of the artifact files present in the working directory
    disk,        \* the (vectorizer, model) pair pickled in those files
    cache,       \* st.cache_resource entry of load_artifacts: <<>> or <<artifacts>>
    loads,       \* number of executions of the body of load_artifacts
    message,     \* content of the text area
    hasHistory,  \* "history" in st.session_state
    history,     \* st.session_state.history
    latest,      \* st.session_state.latest: <<>> (key absent) or <<record>>
    prefill,     \* st.session_state.prefill: <<>> (key absent) or <<text>>
    clock,       \* number of datetime.now() calls so far (a logical clock)
    clicked,     \* the button whose click triggered the last script run
    result,      \* what the last call of predict_msg did
    outcome,     \* how the last script run ended
    cleaned,     \* SpecClean: <<>> or <<clean_text(message)>>
    made,        \* history variable: the successful predictions, oldest first
    everRaised   \* history variable: a Predict run ended in an exception of
                 \* vectorizer.transform or model.predict

vars == <<files, disk, cache, loads, message, hasHistory, history, latest,
          prefill, clock, clicked, result, outcome, cleaned, made, everRaised>>

-----------------------------------------------------------------------------
(* Bounds *)

\* longest text SpecClean draws
MaxLen == 4
\* largest magnitude of a numeric raw label SpecPredict draws
MaxNum == 2
\* successful predictions in one session of Spec (more than the history cap)
MaxPredictions == 22
\* executions of the body of load_artifacts in Spec
MaxLoads == 3

-----------------------------------------------------------------------------
(* Characters and texts *)

Letters == {"a", "A"}
Spaces == {" ", "\t"}
Chars == Letters \cup Spaces

\* str.isspace() / the regex class \s
IsSpace(c) == c \in Spaces

\* str.lower() on one character
LowerChar(c) == IF c = "A" THEN "a" ELSE c

\* str.lower()
Lower(s) == [i \in 1..Len(s) |-> LowerChar(s[i])]

RECURSIVE LStrip(_)
LStrip(s) ==
    IF s = <<>> THEN <<>>
    ELSE IF IsSpace(Head(s)) THEN LStrip(Tail(s)) ELSE s

RECURSIVE RStrip(_)
RStrip(s) ==
    IF s = <<>> THEN <<>>
    ELSE IF IsSpace(s[Len(s)]) THEN RStrip(SubSeq(s, 1, Len(s) - 1)) ELSE s

\* str.strip()
Strip(s) == RStrip(LStrip(s))

\* re.sub(r"\s+", " ", s): scanning left to right, each maximal run of
\* whitespace is one match and is replaced by one space
RECURSIVE SubSpaces(_)
SubSpaces(s) ==
    IF s = <<>> THEN <<>>
    ELSE IF IsSpace(Head(s))
         THEN <<" ">> \o SubSpaces(LStrip(s))
         ELSE <<Head(s)>> \o SubSpaces(Tail(s))

\* clean_text with line 26 reading text.lower(): the strip() is lost
clean_text_without_strip(text) == SubSpaces(Lower(text))

\* lines 25-28
clean_text(text) == SubSpaces(Strip(Lower(text)))

RECURSIVE TextsUpTo(_)
TextsUpTo(n) ==
    IF n = 0 THEN {<<>>}
    ELSE LET shorter == TextsUpTo(n - 1)
         IN  shorter \cup {Append(s, c) : s \in {t \in shorter : Len(t) = n - 1}, c \in Chars}

Texts == TextsUpTo(MaxLen)

-----------------------------------------------------------------------------
(* Raw labels: what model.predict(x)[0] can be *)

\* A Python value as far as predict_msg can tell values apart: its type, twice
\* its numeric value (so that halves are representable) and its string value.
\*   int, float, bool      Python built-ins (bool is a subclass of int)
\*   npint                 a numpy integer: not an instance of int or float
\*   npfloat               numpy.float64: a subclass of float
\*   str                   a string (numpy.str_ is a subclass of str)
Num(ty, twice) == [ty |-> ty, twice |-> twice, s |-> ""]
Str(s) == [ty |-> "str", twice |-> 0, s |-> s]

IntLabels == {Num("int", 2 * n) : n \in -MaxNum..MaxNum}
FloatLabels == {Num("float", h) : h \in (-2 * MaxNum)..(2 * MaxNum)}
BoolLabels == {Num("bool", 0), Num("bool", 2)}
NumpyLabels == {Num("npint", 0), Num("npint", 2), Num("npfloat", 0),
                Num("npfloat", 2), Num("npfloat", 3)}
LabelStrings == {"spam", "SPAM", "Spam", "sPaM", "ham", "HAM", "Ham",
                 "1", "0", "yes", "true", "no", "maybe"}
StrLabels == {Str(s) : s \in LabelStrings}

RawLabels == IntLabels \cup FloatLabels \cup BoolLabels \cup NumpyLabels \cup StrLabels

\* isinstance(pred, (int, float))
IsIntOrFloat(pred) == pred.ty \in {"int", "bool", "float", "npfloat"}

\* int(pred) for a number: truncation towards zero
PyInt(pred) ==
    IF pred.twice >= 0 THEN pred.twice \div 2 ELSE -((-pred.twice) \div 2)

\* lines 37-38: convert to friendly strings if numeric labels used
FriendlyLabel(pred) ==
    IF IsIntOrFloat(pred)
    THEN IF PyInt(pred) = 1 THEN Str("spam") ELSE Str("ham")
    ELSE pred

-----------------------------------------------------------------------------
(* The artifacts: a vectorizer and a model, immutable once unpickled *)

\* The two texts a session submits that are not blank, cleaned
OkText == <<"a", " ", "a">>
BadText == <<"a", "a">>

\* Rows predict_proba can return, in percent, one entry per class
ProbaRows == {<<30, 70>>, <<100, 0>>}

\* v.raises: the cleaned texts on which vectorizer.transform raises
\* m.raises: the cleaned texts on which model.predict raises
\* m.pred:   the raw label model.predict returns
\* m.has_proba, m.probaRaises, m.proba: whether the model has predict_proba,
\*           whether calling it raises, and the row it returns
Artifact(vr, mr, pred, hp, pr, row) ==
    [v |-> [raises |-> vr],
     m |-> [raises |-> mr, pred |-> pred, has_proba |-> hp,
            probaRaises |-> pr, proba |-> row]]

ProbaModes == {<<FALSE, FALSE, <<>>>>, <<TRUE, TRUE, <<>>>>}
              \cup {<<TRUE, FALSE, row>> : row \in ProbaRows}

Artifacts ==
    {Artifact(vr, mr, pred, pm[1], pm[2], pm[3]) :
        vr \in {{}, {BadText}}, mr \in {{}, {BadText}},
        pred \in RawLabels, pm \in ProbaModes}

RECURSIVE SeqMax(_)
SeqMax(row) ==
    IF Len(row) = 1 THEN row[1]
    ELSE LET rest == SeqMax(Tail(row))
         IN  IF Head(row) >= rest THEN Head(row) ELSE rest

\* What a call of predict_msg does: it returns (label, score), score being
\* <<>> for None, or an exception leaves it from the named call.
NoLabel == Str("")
NotCalled == [called |-> FALSE, ok |-> FALSE, err |-> "", label |-> NoLabel, score |-> <<>>]
Raised(what) == [called |-> TRUE, ok |-> FALSE, err |-> what, label |-> NoLabel, score |-> <<>>]
Returned(label, score) == [called |-> TRUE, ok |-> TRUE, err |-> "", label |-> label, score |-> score]

\* lines 30-39
predict_msg(art, text) ==
    LET x == clean_text(text)
    IN  IF x \in art.v.raises THEN Raised("transform")
        ELSE IF x \in art.m.raises THEN Raised("predict")
        ELSE IF art.m.has_proba /\ art.m.probaRaises THEN Raised("predict_proba")
        ELSE LET proba == IF art.m.has_proba THEN <<SeqMax(art.m.proba)>> ELSE <<>>
             IN  Returned(FriendlyLabel(art.m.pred), proba)

-----------------------------------------------------------------------------
(* load_artifacts under st.cache_resource *)

VectorizerFile == "tfidf_vectorizer.pkl"
ModelFile == "spam_model.pkl"

\* lines 15-20, the body: open() raises FileNotFoundError for a missing file
LoadBody ==
    IF VectorizerFile \notin files
    THEN [ok |-> FALSE, exc |-> "FileNotFoundError: tfidf_vectorizer.pkl", value |-> <<>>]
    ELSE IF ModelFile \notin files
    THEN [ok |-> FALSE, exc |-> "FileNotFoundError: spam_model.pkl", value |-> <<>>]
    ELSE [ok |-> TRUE, exc |-> "", value |-> <<disk>>]

\* lines 14 and 22: st.cache_resource returns the stored value when there is
\* one; otherwise it runs the body and stores what the body returns.  An
\* exception of the body passes through the decorator and nothing is stored.
load_artifacts ==
    IF cache # <<>>
    THEN [hit |-> TRUE, ok |-> TRUE, exc |-> "", cache |-> cache]
    ELSE [hit |-> FALSE, ok |-> LoadBody.ok, exc |-> LoadBody.exc, cache |-> LoadBody.value]

-----------------------------------------------------------------------------
(* Session state *)

\* line 53
HistoryCap == 20

Min(a, b) == IF a <= b THEN a ELSE b

\* line 50: f"{score*100:.2f}%" if score is not None else "N/A"
FormatScore(score) == IF score = <<>> THEN <<"N/A">> ELSE <<score[1], "%">>

\* add_history with line 53 reading history[-20:]: the oldest 20 are kept
add_history_keeps_oldest(h, msg, label, score, now) ==
    LET entry == [time |-> now, message |-> msg, label |-> label,
                  score |-> FormatScore(score)]
        inserted == <<entry>> \o h
    IN  SubSeq(inserted, Len(inserted) - Min(Len(inserted), HistoryCap) + 1, Len(inserted))

\* lines 45-53; now is the value of datetime.now()
add_history(h, msg, label, score, now) ==
    LET entry == [time |-> now, message |-> msg, label |-> label,
                  score |-> FormatScore(score)]
        inserted == <<entry>> \o h
    IN  SubSeq(inserted, 1, Min(Len(inserted), HistoryCap))

\* lines 144, 152, 156, 160, 164: the example texts (shortened)
SampleText == "Congratulations! You won a free lottery"
ExampleTexts ==
    [e1 |-> "WINNER!! You have been selected",
     e2 |-> "URGENT! Your account will be blocked",
     e3 |-> "Your order has been shipped",
     e4 |-> "Hey bro, are we meeting today"]
ExampleButtons == {"e1", "e2", "e3", "e4"}

\* line 182: lbl in ("spam", "SPAM", "Spam", 1)
RenderedSpam(lbl) ==
    \/ lbl.ty = "str" /\ lbl.s \in {"spam", "SPAM", "Spam"}
    \/ lbl.ty # "str" /\ lbl.twice = 2

\* The texts the user of a session types
SessionMessages == {<<>>, <<" ", "\t">>, <<" ", "A", "\t", "a">>, <<"A", "a">>}

\* The artifacts a session's files hold
SessionLabels == {Num("npint", 2), Num("int", 0), Str("SPAM")}
SessionArtifacts ==
    {a \in Artifacts :
        /\ a.m.pred \in SessionLabels
        /\ a.v.raises # a.m.raises
        /\ a.m.proba # <<100, 0>>}

\* lines 214-219: row['label'].upper() for the first 7 rows raises
\* AttributeError for a label that is not a string
HistoryPanelRaises(h) == \E i \in 1..Min(Len(h), 7) : h[i].label.ty # "str"

\* How a run that reached the right column with history h ends
EndOfScript(shown, h) ==
    IF HistoryPanelRaises(h) THEN "AttributeError in history panel" ELSE shown

ExceptionIn(r) ==
    CASE r.err = "transform" -> "exception in transform"
      [] r.err = "predict" -> "exception in predict"
      [] OTHER -> "exception in predict_proba"

-----------------------------------------------------------------------------
(* Script runs.  Every user interaction runs the script from line 1. *)

\* The widgets the last run put on the page.  A run that an exception ended
\* rendered only what precedes the raising line: nothing for line 22, the
\* text area and the Predict button for line 134, every widget for line 216.
Widgets == {"text_area", "predict_btn", "clear_btn", "sample_btn"} \cup ExampleButtons
Rendered ==
    IF outcome \in {"completed", "rerun", "st.error: Please enter a message to predict.",
                    "AttributeError in history panel"}
    THEN Widgets
    ELSE IF outcome \in {"exception in transform", "exception in predict",
                         "exception in predict_proba"}
    THEN {"text_area", "predict_btn"}
    ELSE {}

sessionVars == <<hasHistory, history, latest, prefill, clock, made, everRaised>>
fixedVars == <<files, disk, cleaned>>

\* lines 14-43 of a run started by `button`, then the handler `Rest` of the
\* lines after them.  An exception of load_artifacts ends the run at line 22.
ScriptRun(button, Rest) ==
    LET l == load_artifacts
    IN  /\ l.hit \/ loads < MaxLoads
        /\ loads' = IF l.hit THEN loads ELSE loads + 1
        /\ cache' = l.cache
        /\ clicked' = button
        /\ UNCHANGED fixedVars
        /\ IF l.ok
           THEN hasHistory' = TRUE /\ Rest
           ELSE /\ outcome' = l.exc
                /\ result' = NotCalled
                /\ UNCHANGED sessionVars

\* The handler's success branch, lines 134-137, for a returned result r
Record(r) ==
    /\ clock < MaxPredictions
    /\ clock' = clock + 1
    /\ history' = add_history(history, message, r.label, r.score, clock + 1)
    /\ latest' = <<[label |-> r.label, score |-> r.score]>>
    /\ made' = Append(made, [time |-> clock + 1, message |-> message,
                             label |-> r.label, score |-> r.score])
    /\ outcome' = EndOfScript("completed", history')
    /\ UNCHANGED <<prefill, everRaised>>

\* The handler with line 131 reading `if not message:`: only the empty
\* message is rejected
PredictHandlerWithoutStrip ==
    IF message = <<>>
    THEN /\ outcome' = EndOfScript("st.error: Please enter a message to predict.", history)
         /\ result' = NotCalled
         /\ UNCHANGED <<history, latest, prefill, clock, made, everRaised>>
    ELSE LET r == predict_msg(cache'[1], message)
         IN  /\ result' = r
             /\ IF r.ok
                THEN Record(r)
                ELSE /\ outcome' = ExceptionIn(r)
                     /\ everRaised' = (everRaised \/ r.err \in {"transform", "predict"})
                     /\ UNCHANGED <<history, latest, prefill, clock, made>>

\* The handler with the call of line 134 in a try whose except clause goes on
\* with a default ("ham", None): the exception is swallowed and recorded
PredictHandlerSwallows ==
    IF Strip(message) = <<>>
    THEN /\ outcome' = EndOfScript("st.error: Please enter a message to predict.", history)
         /\ result' = NotCalled
         /\ UNCHANGED <<history, latest, prefill, clock, made, everRaised>>
    ELSE LET r == predict_msg(cache'[1], message)
         IN  /\ result' = r
             /\ IF r.ok THEN Record(r) ELSE Record(Returned(Str("ham"), <<>>))

\* lines 130-137
PredictHandler ==
    IF Strip(message) = <<>>
    THEN /\ outcome' = EndOfScript("st.error: Please enter a message to predict.", history)
         /\ result' = NotCalled
         /\ UNCHANGED <<history, latest, prefill, clock, made, everRaised>>
    ELSE LET r == predict_msg(cache'[1], message)
         IN  /\ result' = r
             /\ IF r.ok
                THEN Record(r)
                ELSE /\ outcome' = ExceptionIn(r)
                     /\ everRaised' = (everRaised \/ r.err \in {"transform", "predict"})
                     /\ UNCHANGED <<history, latest, prefill, clock, made>>

PredictBtn ==
    /\ "predict_btn" \in Rendered
    /\ UNCHANGED message
    /\ ScriptRun("predict_btn", PredictHandler)

\* lines 139-140
ClearHandler ==
    /\ outcome' = EndOfScript("rerun", history)
    /\ result' = NotCalled
    /\ UNCHANGED <<history, latest, prefill, clock, made, everRaised>>

ClearBtn ==
    /\ "clear_btn" \in Rendered
    /\ UNCHANGED message
    /\ ScriptRun("clear_btn", ClearHandler)

\* lines 142-145 and 151-166
PrefillHandler(text) ==
    /\ prefill' = <<text>>
    /\ outcome' = EndOfScript("rerun", history)
    /\ result' = NotCalled
    /\ UNCHANGED <<history, latest, clock, made, everRaised>>

SampleBtn ==
    /\ "sample_btn" \in Rendered
    /\ UNCHANGED message
    /\ ScriptRun("sample_btn", PrefillHandler(SampleText))

ExampleBtn(e) ==
    /\ e \in Rendered
    /\ UNCHANGED message
    /\ ScriptRun(e, PrefillHandler(ExampleTexts[e]))

\* no button is down
NoHandler ==
    /\ outcome' = EndOfScript("completed", history)
    /\ result' = NotCalled
    /\ UNCHANGED <<history, latest, prefill, clock, made, everRaised>>

\* line 127
TypeMessage(m) ==
    /\ "text_area" \in Rendered
    /\ message' = m
    /\ ScriptRun("text_area", NoHandler)

\* the page is opened, or the user picks Rerun from the page menu
Rerun == UNCHANGED message /\ ScriptRun("rerun", NoHandler)

Init ==
    /\ files \in SUBSET {VectorizerFile, ModelFile}
    /\ disk \in SessionArtifacts
    /\ cache = <<>>
    /\ loads = 0
    /\ message = <<>>
    /\ hasHistory = FALSE
    /\ history = <<>>
    /\ latest = <<>>
    /\ prefill = <<>>
    /\ clock = 0
    /\ clicked = "none"
    /\ result = NotCalled
    /\ outcome = "none"
    /\ cleaned = <<>>
    /\ made = <<>>
    /\ everRaised = FALSE

Next ==
    \/ \E m \in SessionMessages : TypeMessage(m)
    \/ PredictBtn
    \/ ClearBtn
    \/ SampleBtn
    \/ \E e \in ExampleButtons : ExampleBtn(e)
    \/ Rerun

Spec == Init /\ [][Next]_vars

-----------------------------------------------------------------------------
(* predict_msg alone, over every raw form of the label *)

CallPredict ==
    /\ ~result.called
    /\ result' = predict_msg(cache[1], message)
    /\ UNCHANGED <<files, disk, cache, loads, message, hasHistory, history, latest,
                   prefill, clock, clicked, outcome, cleaned, made, everRaised>>

InitPredict ==
    /\ files = {VectorizerFile, ModelFile}
    /\ disk \in Artifacts
    /\ cache = <<disk>>
    /\ loads = 1
    /\ message \in SessionMessages
    /\ Strip(message) # <<>>
    /\ hasHistory = TRUE
    /\ history = <<>>
    /\ latest = <<>>
    /\ prefill = <<>>
    /\ clock = 0
    /\ clicked = "none"
    /\ result = NotCalled
    /\ outcome = "none"
    /\ cleaned = <<>>
    /\ made = <<>>
    /\ everRaised = FALSE

NextPredict == CallPredict

SpecPredict == InitPredict /\ [][NextPredict]_vars

-----------------------------------------------------------------------------
(* clean_text alone, over every text of at most MaxLen characters *)

CallCleanText ==
    /\ cleaned = <<>>
    /\ cleaned' = <<clean_text(message)>>
    /\ UNCHANGED <<files, disk, cache, loads, message, hasHistory, history, latest,
                   prefill, clock, clicked, result, outcome, made, everRaised>>

InitClean ==
    /\ files = {VectorizerFile, ModelFile}
    /\ disk = Artifact({}, {}, Num("int", 0), FALSE, FALSE, <<>>)
    /\ cache = <<>>
    /\ loads = 0
    /\ message \in Texts
    /\ hasHistory = FALSE
    /\ history = <<>>
    /\ latest = <<>>
    /\ prefill = <<>>
    /\ clock = 0
    /\ clicked = "none"
    /\ result = NotCalled
    /\ outcome = "none"
    /\ cleaned = <<>>
    /\ made = <<>>
    /\ everRaised = FALSE

NextClean == CallCleanText

SpecClean == InitClean /\ [][NextClean]_vars

-----------------------------------------------------------------------------
(* Properties *)

Canonical == {Str("spam"), Str("ham")}

\* the raw label and the cleaned text of the call the loaded model answers
LoadedPred == cache[1].m.pred
TransformAndPredictSucceed(art, text) ==
    clean_text(text) \notin (art.v.raises \cup art.m.raises)

\* C1: every label predict_msg returns, and so every label in
\* session_state.latest and in session_state.history, is one of the two
\* canonical values, whatever raw form the classifier returned.
C1_LabelsCanonical ==
    /\ result.ok => result.label \in Canonical
    /\ latest # <<>> => latest[1].label \in Canonical
    /\ \A i \in 1..Len(history) : history[i].label \in Canonical

\* C2: a Python int or float raw label gives SPAM when its value equals 1
\* and HAM for every other value, 1.5 included.
C2_NumericOneIsSpam ==
    (result.ok /\ LoadedPred.ty \in {"int", "float"})
        => result.label = (IF LoadedPred.twice = 2 THEN Str("spam") ELSE Str("ham"))

\* The class a string raw label stands for, by the rule of C3
ExpectedForString(s) ==
    IF s \in {"spam", "SPAM", "Spam", "sPaM", "1", "yes", "true"} THEN "spam" ELSE "ham"

\* The class the page reads a returned label as (line 182)
ReadsAs(lbl) == IF RenderedSpam(lbl) THEN "spam" ELSE "ham"

\* C3: a string raw label is mapped to SPAM when it is "spam" in any case,
\* "1", "yes" or "true", and to HAM otherwise; here even as the page reads
\* the returned label, which is weaker than the label being canonical.
C3_StringLabelsMapped ==
    (result.ok /\ LoadedPred.ty = "str")
        => ReadsAs(result.label) = ExpectedForString(LoadedPred.s)

\* C4: when transform and predict succeed, a Predict action ends with a
\* successful result that is recorded in latest and history; its confidence
\* is None when predict_proba is absent or raises.
C4_ProbaFailureIsNotAnError ==
    (clicked = "predict_btn" /\ result.called
        /\ TransformAndPredictSucceed(cache[1], message))
        => /\ result.ok
           /\ (~cache[1].m.has_proba \/ cache[1].m.probaRaises) => result.score = <<>>
           /\ latest = <<[label |-> result.label, score |-> result.score]>>
           /\ history # <<>> /\ history[1].message = message

\* C5: a Predict action in which transform or predict raises ends in that
\* exception, leaves history, latest and the loaded artifacts as they were,
\* and leaves the text area and the Predict button on the page for a retry.
C5_PredictErrorLeavesState ==
    [][(/\ clicked' = "predict_btn"
        /\ Strip(message) # <<>>
        /\ ~TransformAndPredictSucceed(cache[1], message))
       => (/\ result'.called /\ ~result'.ok
           /\ outcome' \in {"exception in transform", "exception in predict"}
           /\ history' = history /\ latest' = latest
           /\ cache' = cache /\ disk' = disk
           /\ everRaised'
           /\ {"text_area", "predict_btn"} \subseteq Rendered')]_vars

\* a Predict succeeds after an earlier one, on another text, raised
C5_Witness ==
    /\ everRaised
    /\ clicked = "predict_btn"
    /\ result.ok
    /\ outcome = "completed"
    /\ Len(history) = 2
    /\ history[1].message = message

\* C6: a missing artifact file gives a handled LoadError naming the file: no
\* script run ends in an unhandled exception of load_artifacts.
C6_MissingFileIsHandled ==
    outcome \notin {"FileNotFoundError: tfidf_vectorizer.pkl",
                    "FileNotFoundError: spam_model.pkl"}

\* C7: the body of load_artifacts runs at most once, whether it succeeded or
\* failed, over any sequence of script runs.
C7_LoadBodyAtMostOnce == loads <= 1

IsBlank(text) == \A i \in 1..Len(text) : text[i] \in Spaces

\* C8: a Predict action on an empty or whitespace-only message does not call
\* predict_msg and leaves history and latest as they were.
C8_BlankIsRejected ==
    [][(clicked' = "predict_btn" /\ IsBlank(message))
       => (~result'.called /\ history' = history /\ latest' = latest)]_vars

C8_Witness ==
    /\ clicked = "predict_btn"
    /\ message = <<" ", "\t">>
    /\ outcome = "st.error: Please enter a message to predict."
    /\ result = NotCalled
    /\ Len(history) = 1

\* The words of a text: its maximal runs of characters that are not whitespace
RECURSIVE WordsFrom(_, _, _)
WordsFrom(text, i, word) ==
    IF i > Len(text) THEN (IF word = <<>> THEN <<>> ELSE <<word>>)
    ELSE IF text[i] \in Spaces
         THEN (IF word = <<>> THEN <<>> ELSE <<word>>) \o WordsFrom(text, i + 1, <<>>)
         ELSE WordsFrom(text, i + 1, Append(word, text[i]))
Words(text) == WordsFrom(text, 1, <<>>)

SameLetter(c, d) == c = d \/ {c, d} = {"a", "A"}

\* Two texts that differ only in letter case, in leading or trailing
\* whitespace, or in the length of whitespace runs
SameButFormat(s, t) ==
    LET ws == Words(s)
        wt == Words(t)
    IN  /\ Len(ws) = Len(wt)
        /\ \A k \in 1..Len(ws) :
              /\ Len(ws[k]) = Len(wt[k])
              /\ \A j \in 1..Len(ws[k]) : SameLetter(ws[k][j], wt[k][j])

\* C9: clean_text returns its input lower-cased, without leading or trailing
\* whitespace, every maximal run of whitespace being one space; texts that
\* differ only in case or whitespace give the same output, and the output
\* is a fixed point.
C9_CleanTextNormalizes ==
    cleaned # <<>> =>
        LET out == cleaned[1]
        IN  /\ \A i \in 1..Len(out) : out[i] \in {"a", " "}
            /\ out # <<>> => (out[1] # " " /\ out[Len(out)] # " ")
            /\ \A i \in 1..(Len(out) - 1) : ~(out[i] = " " /\ out[i + 1] = " ")
            /\ SameButFormat(out, message)
            /\ \A t \in Texts : SameButFormat(t, message) => clean_text(t) = out
            /\ clean_text(out) = out

C9_Witness ==
    /\ message = <<" ", "A", "\t", " ">>
    /\ cleaned = <<(<<"a">>)>>

\* C10: history never holds more than 20 entries, is most-recent-first, and
\* holds exactly the min(n, 20) most recent of the n successful predictions;
\* only a successful Predict changes it.
C10_HistoryShape ==
    /\ Len(history) = Min(Len(made), HistoryCap)
    /\ Len(history) <= 20
    /\ \A i \in 1..Len(history) :
          LET p == made[Len(made) - i + 1]
          IN  /\ history[i].time = p.time
              /\ history[i].message = p.message
              /\ history[i].label = p.label
    /\ \A i \in 1..Len(history) : \A j \in (i + 1)..Len(history) :
          history[i].time > history[j].time

C10_BoundedHistory ==
    /\ []C10_HistoryShape
    /\ [][(history' # history) => (clicked' = "predict_btn" /\ result'.ok
                                    /\ Len(made') = Len(made) + 1)]_vars

C10_Witness ==
    /\ Len(made) = 22
    /\ Len(history) = 20
    /\ history[1].time = 22
    /\ history[20].time = 3
    /\ clicked = "e4"

====
